---- MODULE Spec2Model ----
(***************************************************************************)
(* RouterDefense (contracts/src/core/RouterDefense.sol): the commit-reveal *)
(* ledger and the protected swap executor, with the route optimizer of     *)
(* contracts/src/libraries/RouteOptimizer.sol.                             *)
(*                                                                         *)
(* A transaction is one call of an external function.  A function that     *)
(* calls out to the venue (swapRouter) is suspended at that call: the      *)
(* callee may call back into the contract before it returns.  The state    *)
(* at entry is kept in the call frame and is restored when the call        *)
(* reverts, as the EVM does.  Amounts are in units of 10^21 wei.           *)
(***************************************************************************)
EXTENDS Integers, Sequences, FiniteSets, TLC

\* ------------------------------------------------------------------ bounds
MaxTime == 122
MaxDepth == 2
MaxQueue == 22
MaxPools == 4
MaxOrders == 2

\* ------------------------------------------------------- program constants
COMMIT_REVEAL_DELAY == 60
MAX_COMMIT_WINDOW == 3600
MAX_BATCH_SIZE == 20
MAX_ROUTES == 3
PERCENTAGE_BASE == 10000
POOL_LIQUIDITY == 1000
POOL_FEE == 3000

\* addresses: the numbers keep the order of the real addresses, which
\* _getAvailablePools compares (DAI < USDC < WETH), and address(0) is 0
ZERO == 0
DAI == 1
USDC == 2
WETH == 3
poolWETH_USDC == 11
poolWETH_DAI == 12
poolUSDC_DAI == 13
THIS == 50
AGENT == 60

Users == {101, 102}
Tokens == {ZERO, DAI, USDC, WETH}
Holders == Users \cup {THIS}

_getWETH == WETH

\* ---------------------------------------------------------------- inputs
\* block.timestamp advances by one of these between transactions: one second
\* more than COMMIT_REVEAL_DELAY, so that a deadline of now + 61 is met
\* exactly by the next block and missed by the one after it
Deltas == {61}
\* deadline of commitOrder, as an offset from block.timestamp: the calls
\* made use the first set, the acceptance rule is examined on the second
DeadlineOffsets == {60, 61, 3601}
BoundaryOffsets == {0, 59, 60, 61, 62, 3599, 3600, 3601}
\* a request deadline that no block of a run reaches
FarDeadline == MaxTime + MAX_COMMIT_WINDOW
\* amountOut values the venue may return for one leg, and its revert
VenueOuts == {50, 99}
VenueRevert == 0 - 1

\* the request a user commits to: 100 WETH for at least 99 USDC
BaseRequest(u) ==
    [tokenIn |-> WETH, tokenOut |-> USDC, amountIn |-> 100,
     amountOutMin |-> 99, recipient |-> u, deadline |-> FarDeadline]

OtherUser(u) == CHOOSE w \in Users : w # u

\* BaseRequest with one field changed
Variants(u) ==
    LET r == BaseRequest(u) IN
    { [r EXCEPT !.tokenIn = ZERO],
      [r EXCEPT !.tokenOut = DAI],
      [r EXCEPT !.amountIn = 0],
      [r EXCEPT !.amountIn = 400],
      [r EXCEPT !.amountOutMin = 0],
      [r EXCEPT !.amountOutMin = 100],
      [r EXCEPT !.recipient = OtherUser(u)],
      [r EXCEPT !.deadline = 60] }

\* the requests a user reveals, and those it swaps directly
RevealRequests(u) == {BaseRequest(u)} \cup Variants(u)

SwapRequests(u) ==
    LET r == BaseRequest(u) IN
    { r,
      [r EXCEPT !.tokenIn = ZERO],
      [r EXCEPT !.tokenIn = ZERO, !.amountOutMin = 0],
      [r EXCEPT !.amountIn = 0],
      [r EXCEPT !.amountOutMin = 100],
      [r EXCEPT !.deadline = 60] }

Nonces == {0, 1}
Salts == {0, 1}

\* -------------------------------------------------------------- the hash
\* keccak256(abi.encodePacked(...)) of RouterDefense.sol:120-130.  All nine
\* fields have a static type, so the packed encoding is the concatenation
\* of fixed-width fields; keccak256 is taken to be collision free, and a
\* digest is written as the sequence of fields it was computed from.
\* bytes32(0) is the empty sequence, the digest of no request.
ZeroHash == << >>

\* mutant: the salt is left out of the hashed fields
Commitment_noSalt(sender, p, nonce, salt) ==
    << sender, p.tokenIn, p.tokenOut, p.amountIn, p.amountOutMin,
       p.recipient, p.deadline, nonce, 0 >>

\* mutant: msg.sender is left out of the hashed fields
Commitment_noSender(sender, p, nonce, salt) ==
    << 0, p.tokenIn, p.tokenOut, p.amountIn, p.amountOutMin,
       p.recipient, p.deadline, nonce, salt >>

Commitment(sender, p, nonce, salt) ==
    << sender, p.tokenIn, p.tokenOut, p.amountIn, p.amountOutMin,
       p.recipient, p.deadline, nonce, salt >>

\* the bytes32 values offered to commitOrder: the digest of every user's
\* request with nonce 0, and of the trader's request with nonce 1 as well
Trader == CHOOSE u \in Users : \A w \in Users : u <= w

CommitHashes ==
    {ZeroHash} \cup { Commitment(u, BaseRequest(u), 0, 0) : u \in Users }
               \cup { Commitment(Trader, BaseRequest(Trader), 1, 0) }

\* ----------------------------------------------------------------- state
VARIABLES
    now,              \* block.timestamp
    commitments,      \* mapping(address => CommitRevealOrder)
    usedCommitments,  \* mapping(bytes32 => bool), as the set of true keys
    revealedOrders,   \* address[]
    balances,         \* balances[token][holder]; ZERO is the native asset
    locked,           \* the ReentrancyGuard status
    orderRevealed,    \* the OrderRevealed events emitted, counted per commitment
    callStack,        \* frames of the calls suspended at the venue call
    optCall,          \* the arguments of a call of RouteOptimizer.optimizeRoute
    optResult,        \* what that call returned
    limitOrders,      \* TraderAgent: mapping(uint256 => LimitOrder)
    userOrders,       \* TraderAgent: mapping(address => uint256[])
    nextOrderId,      \* TraderAgent: the id the next limit order gets
    agentBalances,    \* balances[token][holder] as the TraderAgent sees them
    limitOrderEvents  \* LimitOrderExecuted and LimitOrderCancelled, counted per id

\* the library call is pure: it reads and writes none of the contract's state
optVars == << optCall, optResult >>

\* the TraderAgent is a contract of its own: RouterDefense reads and writes
\* none of its state
agentVars == << limitOrders, userOrders, nextOrderId, agentBalances,
                limitOrderEvents >>

vars == << now, commitments, usedCommitments, revealedOrders, balances,
           locked, orderRevealed, callStack, optCall, optResult,
           limitOrders, userOrders, nextOrderId, agentBalances,
           limitOrderEvents >>

ledger == << commitments, usedCommitments, revealedOrders >>

EmptyOrder == [commitment |-> ZeroHash, deadline |-> 0,
               revealed |-> FALSE, executed |-> FALSE]

\* the trader can pay for two swaps, every other user for one
InitBalance(t, h) == IF h = Trader /\ t = WETH THEN 200
                     ELSE IF h \in Users /\ t \in {WETH, ZERO} THEN 100 ELSE 0

\* the TraderAgent as its constructor leaves it: no order, nextOrderId = 1,
\* and its users holding what they hold at RouterDefense
OrderIds == 1..MaxOrders

AgentHolders == Users \cup {AGENT}

EmptyLimitOrder ==
    [user |-> ZERO, tokenIn |-> ZERO, tokenOut |-> ZERO, amountIn |-> 0,
     targetPrice |-> 0, deadline |-> 0, executed |-> FALSE]

AgentStart ==
    /\ limitOrders = [id \in OrderIds |-> EmptyLimitOrder]
    /\ userOrders = [u \in Users |-> << >>]
    /\ nextOrderId = 1
    /\ agentBalances = [t \in Tokens |-> [h \in AgentHolders |->
                          IF h \in Users /\ t \in {WETH, ZERO} THEN 100 ELSE 0]]
    /\ limitOrderEvents = [id \in OrderIds |-> [executed |-> 0, cancelled |-> 0]]

\* no call of the library on its own is in progress
NoCall == [tokenIn |-> ZERO, tokenOut |-> ZERO, amountIn |-> 0,
           availablePools |-> << >>]

\* optResult is the sequence of the values returned so far: none, or one
NoResult == << >>

Init ==
    /\ AgentStart
    /\ optCall = NoCall
    /\ optResult = NoResult
    /\ now = 0
    /\ commitments = [u \in Users |-> EmptyOrder]
    /\ usedCommitments = {}
    /\ revealedOrders = << >>
    /\ balances = [t \in Tokens |-> [h \in Holders |-> InitBalance(t, h)]]
    /\ locked = FALSE
    /\ orderRevealed = [h \in CommitHashes |-> 0]
    /\ callStack = << >>

\* ------------------------------------------------------------- the clock
Tick ==
    /\ callStack = << >>
    /\ \E d \in Deltas :
         /\ now + d <= MaxTime
         /\ now' = now + d
    /\ UNCHANGED << commitments, usedCommitments, revealedOrders, balances,
                    locked, orderRevealed, callStack, optVars, agentVars >>

\* ------------------------------------------------------------ commitOrder
\* mutant: the lower deadline bound is inclusive
commitOrderError_inclusive(commitment, deadline) ==
    IF commitment = ZeroHash THEN "RouterDefense: invalid commitment"
    ELSE IF commitment \in usedCommitments THEN "RouterDefense: commitment used"
    ELSE IF ~(deadline >= now + COMMIT_REVEAL_DELAY) THEN "RouterDefense: deadline too soon"
    ELSE IF ~(deadline <= now + MAX_COMMIT_WINDOW) THEN "RouterDefense: deadline too far"
    ELSE "ok"

\* mutant: validCommitment does not look at usedCommitments
commitOrderError_noUsedCheck(commitment, deadline) ==
    IF commitment = ZeroHash THEN "RouterDefense: invalid commitment"
    ELSE IF ~(deadline > now + COMMIT_REVEAL_DELAY) THEN "RouterDefense: deadline too soon"
    ELSE IF ~(deadline <= now + MAX_COMMIT_WINDOW) THEN "RouterDefense: deadline too far"
    ELSE "ok"

\* modifier validCommitment, then the two deadline requirements
commitOrderError(commitment, deadline) ==
    IF commitment = ZeroHash THEN "RouterDefense: invalid commitment"
    ELSE IF commitment \in usedCommitments THEN "RouterDefense: commitment used"
    ELSE IF ~(deadline > now + COMMIT_REVEAL_DELAY) THEN "RouterDefense: deadline too soon"
    ELSE IF ~(deadline <= now + MAX_COMMIT_WINDOW) THEN "RouterDefense: deadline too far"
    ELSE "ok"

\* mutant: a caller whose slot holds a record cannot commit again
commitOrder_keepsSlot(sender, commitment, deadline) ==
    LET err == commitOrderError(commitment, deadline) IN
    /\ IF err = "ok" /\ commitments[sender].commitment = ZeroHash
       THEN /\ commitments' = [commitments EXCEPT ![sender] =
                                 [commitment |-> commitment, deadline |-> deadline,
                                  revealed |-> FALSE, executed |-> FALSE]]
            /\ usedCommitments' = usedCommitments \cup {commitment}
       ELSE UNCHANGED << commitments, usedCommitments >>
    /\ UNCHANGED << now, revealedOrders, balances, locked, orderRevealed,
                    callStack, optVars, agentVars >>

\* mutant: the hash is marked used before the deadline is looked at
commitOrder_marksUsedFirst(sender, commitment, deadline) ==
    LET err == commitOrderError(commitment, deadline) IN
    /\ IF err = "ok"
       THEN /\ commitments' = [commitments EXCEPT ![sender] =
                                 [commitment |-> commitment, deadline |-> deadline,
                                  revealed |-> FALSE, executed |-> FALSE]]
            /\ usedCommitments' = usedCommitments \cup {commitment}
       ELSE IF err \in {"RouterDefense: deadline too soon",
                        "RouterDefense: deadline too far"}
       THEN /\ usedCommitments' = usedCommitments \cup {commitment}
            /\ UNCHANGED commitments
       ELSE UNCHANGED << commitments, usedCommitments >>
    /\ UNCHANGED << now, revealedOrders, balances, locked, orderRevealed,
                    callStack, optVars, agentVars >>

\* mutant: a commit is refused while another address holds a record
commitOrder_oneCommitter(sender, commitment, deadline) ==
    LET err == commitOrderError(commitment, deadline) IN
    /\ IF err = "ok" /\ \A w \in Users \ {sender} :
                           commitments[w].commitment = ZeroHash
       THEN /\ commitments' = [commitments EXCEPT ![sender] =
                                 [commitment |-> commitment, deadline |-> deadline,
                                  revealed |-> FALSE, executed |-> FALSE]]
            /\ usedCommitments' = usedCommitments \cup {commitment}
       ELSE UNCHANGED << commitments, usedCommitments >>
    /\ UNCHANGED << now, revealedOrders, balances, locked, orderRevealed,
                    callStack, optVars, agentVars >>

\* mutant: the record is written to the slot of another address
commitOrder_wrongSlot(sender, commitment, deadline) ==
    LET err == commitOrderError(commitment, deadline) IN
    /\ IF err = "ok"
       THEN /\ commitments' = [commitments EXCEPT ![OtherUser(sender)] =
                                 [commitment |-> commitment, deadline |-> deadline,
                                  revealed |-> FALSE, executed |-> FALSE]]
            /\ usedCommitments' = usedCommitments \cup {commitment}
       ELSE UNCHANGED << commitments, usedCommitments >>
    /\ UNCHANGED << now, revealedOrders, balances, locked, orderRevealed,
                    callStack, optVars, agentVars >>

\* commitOrder has no nonReentrant modifier: it runs at any call depth
commitOrder(sender, commitment, deadline) ==
    LET err == commitOrderError(commitment, deadline) IN
    /\ IF err = "ok"
       THEN /\ commitments' = [commitments EXCEPT ![sender] =
                                 [commitment |-> commitment, deadline |-> deadline,
                                  revealed |-> FALSE, executed |-> FALSE]]
            /\ usedCommitments' = usedCommitments \cup {commitment}
       ELSE UNCHANGED << commitments, usedCommitments, optVars, agentVars >>
    /\ UNCHANGED << now, revealedOrders, balances, locked, orderRevealed,
                    callStack, optVars, agentVars >>

CommitOrderCall ==
    \E u \in Users, h \in CommitHashes, off \in DeadlineOffsets :
        commitOrder(u, h, now + off)

\* ------------------------------------------------------- RouteOptimizer
\* mutant: only token1 of the pool is compared
_isValidPool_token1(pool, tokenIn, tokenOut) ==
    pool.token1 = tokenIn \/ pool.token1 = tokenOut

_isValidPool(pool, tokenIn, tokenOut) ==
    \/ (pool.token0 = tokenIn /\ pool.token1 = tokenOut)
    \/ (pool.token0 = tokenOut /\ pool.token1 = tokenIn)

\* mutant: a pool takes up to its whole liquidity
_calculatePoolCapacity_all(pool, amountIn) == pool.liquidity

_calculatePoolCapacity(pool, amountIn) == (pool.liquidity * 3000) \div 10000

\* mutant: the fee is taken as a number of basis points
_calculateExpectedOutput_bps(pool, tokenIn, tokenOut, amountIn) ==
    LET feeAmount == (amountIn * pool.fee) \div 10000
        amountInAfterFee == amountIn - feeAmount
    IN  (amountInAfterFee * 997) \div 1000

_calculateExpectedOutput(pool, tokenIn, tokenOut, amountIn) ==
    LET feeAmount == (amountIn * pool.fee) \div 1000000
        amountInAfterFee == amountIn - feeAmount
    IN  (amountInAfterFee * 997) \div 1000

\* the loop of optimizeRoute from index i on; acc holds routes,
\* expectedAmountOut and remainingAmount (routeCount is Len(acc.routes)),
\* and routeAmounts and expectedOuts, the values of the locals routeAmount
\* and expectedOut for each route
RECURSIVE optimizeLoop(_, _, _, _, _, _)
optimizeLoop(tokenIn, tokenOut, amountIn, availablePools, i, acc) ==
    IF ~(i <= Len(availablePools) /\ Len(acc.routes) < MAX_ROUTES
           /\ acc.remainingAmount > 0)
    THEN acc
    ELSE
      LET pool == availablePools[i]
          poolCapacity == _calculatePoolCapacity(pool, amountIn)
          routeAmount == IF acc.remainingAmount > poolCapacity
                         THEN poolCapacity ELSE acc.remainingAmount
          percentage == (routeAmount * PERCENTAGE_BASE) \div amountIn
          expectedOut == _calculateExpectedOutput(pool, tokenIn, tokenOut, routeAmount)
      IN  IF ~_isValidPool(pool, tokenIn, tokenOut) \/ routeAmount = 0
          THEN optimizeLoop(tokenIn, tokenOut, amountIn, availablePools, i + 1, acc)
          ELSE optimizeLoop(tokenIn, tokenOut, amountIn, availablePools, i + 1,
                 [routes |-> Append(acc.routes,
                                [pool |-> pool.pool, tokenIn |-> tokenIn,
                                 tokenOut |-> tokenOut, percentage |-> percentage]),
                  routeAmounts |-> Append(acc.routeAmounts, routeAmount),
                  expectedOuts |-> Append(acc.expectedOuts, expectedOut),
                  expectedAmountOut |-> acc.expectedAmountOut + expectedOut,
                  remainingAmount |-> acc.remainingAmount - routeAmount])

\* mutant: the candidates are walked from the last to the first
optimizeRoute_backwards(tokenIn, tokenOut, amountIn, availablePools) ==
    optimizeLoop(tokenIn, tokenOut, amountIn,
                 [i \in 1..Len(availablePools) |->
                    availablePools[Len(availablePools) + 1 - i]], 1,
                 [routes |-> << >>, routeAmounts |-> << >>, expectedOuts |-> << >>,
                  expectedAmountOut |-> 0, remainingAmount |-> amountIn])

\* mutant: a percentage with a remainder is rounded up
optimizeRoute_roundsUp(tokenIn, tokenOut, amountIn, availablePools) ==
    LET r == optimizeLoop(tokenIn, tokenOut, amountIn, availablePools, 1,
                 [routes |-> << >>, routeAmounts |-> << >>, expectedOuts |-> << >>,
                  expectedAmountOut |-> 0, remainingAmount |-> amountIn])
    IN  [r EXCEPT !.routes = [i \in 1..Len(r.routes) |->
           [r.routes[i] EXCEPT !.percentage =
              IF (r.routeAmounts[i] * PERCENTAGE_BASE) % amountIn = 0
              THEN @ ELSE @ + 1]]]

optimizeRoute(tokenIn, tokenOut, amountIn, availablePools) ==
    optimizeLoop(tokenIn, tokenOut, amountIn, availablePools, 1,
                 [routes |-> << >>, routeAmounts |-> << >>, expectedOuts |-> << >>,
                  expectedAmountOut |-> 0, remainingAmount |-> amountIn])

\* --------------------------------------------------------- venue registry
\* tokenPairPools as _initializePools leaves it
tokenPairPools(tokenA, tokenB) ==
    IF {tokenA, tokenB} = {_getWETH, USDC} THEN << poolWETH_USDC >>
    ELSE IF {tokenA, tokenB} = {_getWETH, DAI} THEN << poolWETH_DAI >>
    ELSE IF {tokenA, tokenB} = {USDC, DAI} THEN << poolUSDC_DAI >>
    ELSE << >>

_getAvailablePools(tokenIn, tokenOut) ==
    LET pools == tokenPairPools(tokenIn, tokenOut) IN
    [i \in 1..Len(pools) |->
        [pool |-> pools[i],
         token0 |-> IF tokenIn < tokenOut THEN tokenIn ELSE tokenOut,
         token1 |-> IF tokenIn < tokenOut THEN tokenOut ELSE tokenIn,
         liquidity |-> POOL_LIQUIDITY,
         fee |-> POOL_FEE]]

getOptimalRoute(tokenIn, tokenOut, amountIn) ==
    optimizeRoute(tokenIn, tokenOut, amountIn, _getAvailablePools(tokenIn, tokenOut))

\* ------------------------------------------------------------ the executor
Move(bal, token, from, to, amount) ==
    [bal EXCEPT ![token] = [h \in Holders |->
        IF from = to THEN @[h]
        ELSE IF h = from THEN @[h] - amount
        ELSE IF h = to THEN @[h] + amount
        ELSE @[h]]]

\* msg.value reaches the contract before the function body runs
receiveValue(bal, sender, value) == Move(bal, ZERO, sender, THIS, value)

\* the fund pull of protectedSwap (61-65) and revealAndExecute (147-151)
pullFunds(bal, sender, params, value) ==
    IF params.tokenIn # ZERO
    THEN IF bal[params.tokenIn][sender] < params.amountIn
         THEN [err |-> "ERC20: transfer amount exceeds balance", balances |-> bal]
         ELSE [err |-> "ok",
               balances |-> Move(bal, params.tokenIn, sender, THIS, params.amountIn)]
    ELSE IF value # params.amountIn
         THEN [err |-> "RouterDefense: incorrect ETH amount", balances |-> bal]
         ELSE [err |-> "ok", balances |-> bal]

\* swapRouter.exactInputSingle for one leg: the router takes amountIn of the
\* input asset from the contract and pays out to the recipient; out is the
\* venue's answer, VenueRevert when it reverts
_executeSingleRoute(bal, route, amountIn, recipient, out) ==
    LET paid == IF route.tokenOut = ZERO THEN _getWETH ELSE route.tokenOut
        spent == [bal EXCEPT ![route.tokenIn][THIS] = @ - amountIn]
    IN  IF out = VenueRevert \/ bal[route.tokenIn][THIS] < amountIn
        THEN [ok |-> FALSE, amountOut |-> 0, balances |-> bal]
        ELSE [ok |-> TRUE, amountOut |-> out,
              balances |-> [spent EXCEPT ![paid][recipient] = @ + out]]

\* mutant: every leg is handed the whole amountIn
RECURSIVE executeLoop_wholeAmount(_, _, _, _, _)
executeLoop_wholeAmount(params, routes, outs, i, acc) ==
    IF ~acc.ok \/ i > Len(routes) THEN acc
    ELSE
      LET routeAmountIn == params.amountIn
          leg == _executeSingleRoute(acc.balances, routes[i], routeAmountIn,
                                     params.recipient, outs[i])
      IN  executeLoop_wholeAmount(params, routes, outs, i + 1,
             [ok |-> leg.ok,
              totalAmountOut |-> acc.totalAmountOut + leg.amountOut,
              remainingAmountIn |-> acc.remainingAmountIn - routeAmountIn,
              routeAmountsIn |-> Append(acc.routeAmountsIn, routeAmountIn),
              balances |-> leg.balances])

\* the loop of _executeMultiPathSwap from leg i on; outs[i] is the venue's
\* answer for leg i, and routeAmountsIn the value of the local routeAmountIn
\* for each leg handed to the venue
RECURSIVE executeLoop(_, _, _, _, _)
executeLoop(params, routes, outs, i, acc) ==
    IF ~acc.ok \/ i > Len(routes) \/ acc.remainingAmountIn = 0 THEN acc
    ELSE
      LET share == (params.amountIn * routes[i].percentage) \div 10000
          routeAmountIn == IF share > acc.remainingAmountIn
                           THEN acc.remainingAmountIn ELSE share
          leg == _executeSingleRoute(acc.balances, routes[i], routeAmountIn,
                                     params.recipient, outs[i])
      IN  IF routeAmountIn > 0
          THEN executeLoop(params, routes, outs, i + 1,
                 [ok |-> leg.ok,
                  totalAmountOut |-> acc.totalAmountOut + leg.amountOut,
                  remainingAmountIn |-> acc.remainingAmountIn - routeAmountIn,
                  routeAmountsIn |-> Append(acc.routeAmountsIn, routeAmountIn),
                  balances |-> leg.balances])
          ELSE executeLoop(params, routes, outs, i + 1, acc)

_executeMultiPathSwap(bal, params, routes, outs) ==
    executeLoop(params, routes, outs, 1,
                [ok |-> TRUE, totalAmountOut |-> 0,
                 remainingAmountIn |-> params.amountIn,
                 routeAmountsIn |-> << >>, balances |-> bal])

\* ---------------------------------------------------------- call frames
Saved == [commitments |-> commitments, usedCommitments |-> usedCommitments,
          revealedOrders |-> revealedOrders, balances |-> balances,
          locked |-> locked, orderRevealed |-> orderRevealed]

Frame(fn, sender, params, routes) ==
    [fn |-> fn, sender |-> sender, params |-> params, routes |-> routes,
     saved |-> Saved]

Top == callStack[Len(callStack)]

Pop == SubSeq(callStack, 1, Len(callStack) - 1)

\* a call that fails before it reaches the venue: nothing it did survives
Fail == UNCHANGED vars

\* mutant: a revert gives the funds back and keeps the ledger writes
Revert_keepsLedger ==
    /\ balances' = Top.saved.balances
    /\ locked' = Top.saved.locked
    /\ callStack' = Pop
    /\ UNCHANGED << now, commitments, usedCommitments, revealedOrders,
                    orderRevealed, optVars, agentVars >>

\* mutant: a revert puts the state back and leaves the lock taken
Revert_keepsLock ==
    /\ commitments' = Top.saved.commitments
    /\ usedCommitments' = Top.saved.usedCommitments
    /\ revealedOrders' = Top.saved.revealedOrders
    /\ balances' = Top.saved.balances
    /\ orderRevealed' = Top.saved.orderRevealed
    /\ callStack' = Pop
    /\ UNCHANGED << now, locked, optVars, agentVars >>

\* the suspended call reverts: the state of its entry comes back, with
\* everything nested calls did in between undone
Revert ==
    /\ commitments' = Top.saved.commitments
    /\ usedCommitments' = Top.saved.usedCommitments
    /\ revealedOrders' = Top.saved.revealedOrders
    /\ balances' = Top.saved.balances
    /\ locked' = Top.saved.locked
    /\ orderRevealed' = Top.saved.orderRevealed
    /\ callStack' = Pop
    /\ UNCHANGED << now, optVars, agentVars >>

\* modifier nonReentrant: the function body runs only with the lock free
nonReentrant == ~locked

ReentrantCall == "ReentrancyGuard: reentrant call"

\* ---------------------------------------------------------- protectedSwap
\* mutant: _executeMultiPathSwap does not require a route
protectedSwapError_noRoutesCheck(sender, params, value) ==
    LET pull == pullFunds(receiveValue(balances, sender, value), sender, params, value)
        opt == getOptimalRoute(params.tokenIn, params.tokenOut, params.amountIn)
    IN  IF ~nonReentrant THEN ReentrantCall
        ELSE IF ~(params.deadline >= now) THEN "RouterDefense: expired deadline"
        ELSE IF ~(params.amountIn > 0) THEN "RouterDefense: invalid amount"
        ELSE IF pull.err # "ok" THEN pull.err
        ELSE IF ~(opt.expectedAmountOut >= params.amountOutMin)
             THEN "RouterDefense: insufficient output"
        ELSE "ok"

\* the checks of protectedSwap up to the venue call, in source order
protectedSwapError(sender, params, value) ==
    LET pull == pullFunds(receiveValue(balances, sender, value), sender, params, value)
        opt == getOptimalRoute(params.tokenIn, params.tokenOut, params.amountIn)
    IN  IF ~nonReentrant THEN ReentrantCall
        ELSE IF ~(params.deadline >= now) THEN "RouterDefense: expired deadline"
        ELSE IF ~(params.amountIn > 0) THEN "RouterDefense: invalid amount"
        ELSE IF pull.err # "ok" THEN pull.err
        ELSE IF ~(opt.expectedAmountOut >= params.amountOutMin)
             THEN "RouterDefense: insufficient output"
        ELSE IF ~(Len(opt.routes) > 0) THEN "RouterDefense: no routes available"
        ELSE "ok"

\* mutant: the routes handed to the executor carry half the share each
protectedSwap_halfRoutes(sender, params, value) ==
    LET err == protectedSwapError(sender, params, value)
        pull == pullFunds(receiveValue(balances, sender, value), sender, params, value)
        opt == getOptimalRoute(params.tokenIn, params.tokenOut, params.amountIn)
        half == [i \in 1..Len(opt.routes) |->
                   [opt.routes[i] EXCEPT !.percentage = @ \div 2]]
    IN  /\ Len(callStack) < MaxDepth
        /\ balances[ZERO][sender] >= value
        /\ IF err # "ok"
           THEN Fail
           ELSE /\ locked' = TRUE
                /\ balances' = pull.balances
                /\ callStack' = Append(callStack,
                                   Frame("protectedSwap", sender, params, half))
                /\ UNCHANGED << now, commitments, usedCommitments,
                                revealedOrders, orderRevealed, optVars, agentVars >>

\* protectedSwap from its entry to the venue call
protectedSwap(sender, params, value) ==
    LET err == protectedSwapError(sender, params, value)
        pull == pullFunds(receiveValue(balances, sender, value), sender, params, value)
        opt == getOptimalRoute(params.tokenIn, params.tokenOut, params.amountIn)
    IN  /\ Len(callStack) < MaxDepth
        /\ balances[ZERO][sender] >= value
        /\ IF err # "ok"
           THEN Fail
           ELSE /\ locked' = TRUE
                /\ balances' = pull.balances
                /\ callStack' = Append(callStack,
                                   Frame("protectedSwap", sender, params, opt.routes))
                /\ UNCHANGED << now, commitments, usedCommitments,
                                revealedOrders, orderRevealed, optVars, agentVars >>

\* mutant: the final slippage guard is missing
slippageGuard_off(amountOut, amountOutMin) == TRUE

\* the final slippage guard of protectedSwap (77)
slippageGuard(amountOut, amountOutMin) == amountOut >= amountOutMin

\* protectedSwap from the venue's answers to its return
protectedSwapResume ==
    /\ callStack # << >>
    /\ Top.fn = "protectedSwap"
    /\ \E outs \in [1..Len(Top.routes) -> VenueOuts \cup {VenueRevert}] :
         LET ex == _executeMultiPathSwap(balances, Top.params, Top.routes, outs) IN
         IF ~ex.ok THEN Revert
         ELSE IF ~slippageGuard(ex.totalAmountOut, Top.params.amountOutMin)
              THEN Revert
         ELSE /\ balances' = ex.balances
              /\ locked' = FALSE
              /\ callStack' = Pop
              /\ UNCHANGED << now, commitments, usedCommitments, revealedOrders,
                              orderRevealed, optVars, agentVars >>

\* ------------------------------------------------------- revealAndExecute
\* mutant: the revealed and executed flags are not checked
revealAndExecuteError_noFlagChecks(sender, params, nonce, salt, value) ==
    LET expectedCommitment == Commitment(sender, params, nonce, salt)
        order == commitments[sender]
        pull == pullFunds(receiveValue(balances, sender, value), sender, params, value)
        opt == getOptimalRoute(params.tokenIn, params.tokenOut, params.amountIn)
    IN  IF ~nonReentrant THEN ReentrantCall
        ELSE IF order.commitment # expectedCommitment THEN "RouterDefense: invalid reveal"
        ELSE IF ~(order.deadline >= now) THEN "RouterDefense: commitment expired"
        ELSE IF pull.err # "ok" THEN pull.err
        ELSE IF ~(Len(opt.routes) > 0) THEN "RouterDefense: no routes available"
        ELSE "ok"

\* mutant: the commitment's deadline is not checked
revealAndExecuteError_noDeadline(sender, params, nonce, salt, value) ==
    LET expectedCommitment == Commitment(sender, params, nonce, salt)
        order == commitments[sender]
        pull == pullFunds(receiveValue(balances, sender, value), sender, params, value)
        opt == getOptimalRoute(params.tokenIn, params.tokenOut, params.amountIn)
    IN  IF ~nonReentrant THEN ReentrantCall
        ELSE IF order.commitment # expectedCommitment THEN "RouterDefense: invalid reveal"
        ELSE IF order.revealed THEN "RouterDefense: already revealed"
        ELSE IF order.executed THEN "RouterDefense: already executed"
        ELSE IF pull.err # "ok" THEN pull.err
        ELSE IF ~(Len(opt.routes) > 0) THEN "RouterDefense: no routes available"
        ELSE "ok"

\* the checks of revealAndExecute up to the venue call, in source order
revealAndExecuteError(sender, params, nonce, salt, value) ==
    LET expectedCommitment == Commitment(sender, params, nonce, salt)
        order == commitments[sender]
        pull == pullFunds(receiveValue(balances, sender, value), sender, params, value)
        opt == getOptimalRoute(params.tokenIn, params.tokenOut, params.amountIn)
    IN  IF ~nonReentrant THEN ReentrantCall
        ELSE IF order.commitment # expectedCommitment THEN "RouterDefense: invalid reveal"
        ELSE IF order.revealed THEN "RouterDefense: already revealed"
        ELSE IF order.executed THEN "RouterDefense: already executed"
        ELSE IF ~(order.deadline >= now) THEN "RouterDefense: commitment expired"
        ELSE IF pull.err # "ok" THEN pull.err
        ELSE IF ~(Len(opt.routes) > 0) THEN "RouterDefense: no routes available"
        ELSE "ok"

\* revealAndExecute from its entry to the venue call
revealAndExecute(sender, params, nonce, salt, value) ==
    LET err == revealAndExecuteError(sender, params, nonce, salt, value)
        pull == pullFunds(receiveValue(balances, sender, value), sender, params, value)
        opt == getOptimalRoute(params.tokenIn, params.tokenOut, params.amountIn)
    IN  /\ Len(callStack) < MaxDepth
        /\ balances[ZERO][sender] >= value
        /\ IF err # "ok"
           THEN Fail
           ELSE /\ locked' = TRUE
                /\ commitments' = [commitments EXCEPT ![sender].revealed = TRUE]
                /\ revealedOrders' = Append(revealedOrders, sender)
                /\ orderRevealed' =
                     [orderRevealed EXCEPT ![Commitment(sender, params, nonce, salt)] = @ + 1]
                /\ balances' = pull.balances
                /\ callStack' = Append(callStack,
                                   Frame("revealAndExecute", sender, params, opt.routes))
                /\ UNCHANGED << now, usedCommitments, optVars, agentVars >>

\* revealAndExecute from the venue's answers to its return; order is the
\* storage slot commitments[msg.sender], whatever it holds by now
revealAndExecuteResume ==
    /\ callStack # << >>
    /\ Top.fn = "revealAndExecute"
    /\ \E outs \in [1..Len(Top.routes) -> VenueOuts \cup {VenueRevert}] :
         LET ex == _executeMultiPathSwap(balances, Top.params, Top.routes, outs) IN
         IF ~ex.ok THEN Revert
         ELSE /\ commitments' = [commitments EXCEPT ![Top.sender].executed = TRUE]
              /\ balances' = ex.balances
              /\ locked' = FALSE
              /\ callStack' = Pop
              /\ UNCHANGED << now, usedCommitments, revealedOrders, orderRevealed, optVars, agentVars >>

\* --------------------------------------------------- batchExecuteRevealed
\* mutant: the loop runs to the end of the queue, whatever it has executed
RECURSIVE batchLoop_noCap(_, _, _)
batchLoop_noCap(i, executed, cm) ==
    IF ~(i <= Len(revealedOrders))
    THEN [executed |-> executed, commitments |-> cm]
    ELSE LET user == revealedOrders[i]
             order == cm[user]
         IN  IF order.revealed /\ ~order.executed /\ order.deadline >= now
             THEN batchLoop_noCap(i + 1, executed + 1, [cm EXCEPT ![user].executed = TRUE])
             ELSE batchLoop_noCap(i + 1, executed, cm)

\* mutant: the loop walks the queue from its last entry to its first
RECURSIVE batchLoop_backwards(_, _, _)
batchLoop_backwards(i, executed, cm) ==
    IF ~(i <= Len(revealedOrders) /\ executed < MAX_BATCH_SIZE)
    THEN [executed |-> executed, commitments |-> cm]
    ELSE LET user == revealedOrders[Len(revealedOrders) + 1 - i]
             order == cm[user]
         IN  IF order.revealed /\ ~order.executed /\ order.deadline >= now
             THEN batchLoop_backwards(i + 1, executed + 1,
                                      [cm EXCEPT ![user].executed = TRUE])
             ELSE batchLoop_backwards(i + 1, executed, cm)

\* the loop of batchExecuteRevealed from index i on
RECURSIVE batchLoop(_, _, _)
batchLoop(i, executed, cm) ==
    IF ~(i <= Len(revealedOrders) /\ executed < MAX_BATCH_SIZE)
    THEN [executed |-> executed, commitments |-> cm]
    ELSE LET user == revealedOrders[i]
             order == cm[user]
         IN  IF order.revealed /\ ~order.executed /\ order.deadline >= now
             THEN batchLoop(i + 1, executed + 1, [cm EXCEPT ![user].executed = TRUE])
             ELSE batchLoop(i + 1, executed, cm)

_clearRevealedOrders == << >>

batchExecuteRevealed(sender) ==
    LET run == batchLoop(1, 0, commitments) IN
    /\ Len(callStack) < MaxDepth
    /\ IF ~nonReentrant THEN Fail
       ELSE IF ~(Len(revealedOrders) > 0)
            THEN Fail
       ELSE /\ commitments' = run.commitments
            /\ revealedOrders' = IF run.executed > 0 THEN _clearRevealedOrders
                                 ELSE revealedOrders
            /\ UNCHANGED << now, usedCommitments, balances, locked,
                            orderRevealed, callStack, optVars, agentVars >>

\* ------------------------------------------------------------- the calls
MsgValues(params) == IF params.tokenIn = ZERO THEN {0, params.amountIn} ELSE {0}

ProtectedSwapCall ==
    \E u \in Users : \E p \in SwapRequests(u) : \E v \in MsgValues(p) :
        protectedSwap(u, p, v)

RevealAndExecuteCall ==
    \E u \in Users, n \in Nonces, s \in Salts :
        \E p \in RevealRequests(u) : \E v \in MsgValues(p) :
            revealAndExecute(u, p, n, s, v)

BatchExecuteRevealedCall == \E u \in Users : batchExecuteRevealed(u)

Next ==
    \/ Tick
    \/ CommitOrderCall
    \/ ProtectedSwapCall
    \/ protectedSwapResume
    \/ RevealAndExecuteCall
    \/ revealAndExecuteResume
    \/ BatchExecuteRevealedCall

Spec == Init /\ [][Next]_vars

\* -------------------------------------------- optimizeRoute on any input
\* RouteOptimizer.optimizeRoute is an internal pure function of its four
\* arguments.  The contract calls it with the pools of one pair, all of the
\* same liquidity; here it is called with candidate lists of any content.
\* candidates by token0, token1 and liquidity: capacities 60, 80, 3, 0 and
\* 600 for the pair WETH/USDC in both orientations, and a pool of another
\* pair that shares a token with it
PoolKinds ==
    { [token0 |-> USDC, token1 |-> WETH, liquidity |-> 200],
      [token0 |-> WETH, token1 |-> USDC, liquidity |-> 267],
      [token0 |-> USDC, token1 |-> WETH, liquidity |-> 10],
      [token0 |-> USDC, token1 |-> WETH, liquidity |-> 3],
      [token0 |-> WETH, token1 |-> USDC, liquidity |-> 2000],
      [token0 |-> DAI, token1 |-> WETH, liquidity |-> 200] }

\* the candidate lists: the pool at index i has address 20 + i
PoolLists ==
    UNION { { [i \in 1..n |->
                 [pool |-> 20 + i, token0 |-> kinds[i].token0,
                  token1 |-> kinds[i].token1,
                  liquidity |-> kinds[i].liquidity, fee |-> POOL_FEE]]
              : kinds \in [1..n -> PoolKinds] } : n \in 0..MaxPools }

OptAmounts == {0, 7, 100, 150, 1000}

OptCalls ==
    [tokenIn : {WETH}, tokenOut : {USDC}, amountIn : OptAmounts,
     availablePools : PoolLists]
    \cup [tokenIn : {USDC}, tokenOut : {WETH}, amountIn : OptAmounts,
          availablePools : PoolLists]

OptInit ==
    /\ AgentStart
    /\ optCall \in OptCalls
    /\ optResult = NoResult
    /\ now = 0
    /\ commitments = [u \in Users |-> EmptyOrder]
    /\ usedCommitments = {}
    /\ revealedOrders = << >>
    /\ balances = [t \in Tokens |-> [h \in Holders |-> InitBalance(t, h)]]
    /\ locked = FALSE
    /\ orderRevealed = [h \in CommitHashes |-> 0]
    /\ callStack = << >>

optimizeRouteCall ==
    /\ optResult = NoResult
    /\ optResult' = << optimizeRoute(optCall.tokenIn, optCall.tokenOut,
                                     optCall.amountIn, optCall.availablePools) >>
    /\ UNCHANGED << now, commitments, usedCommitments, revealedOrders,
                    balances, locked, orderRevealed, callStack, optCall, agentVars >>

OptNext == optimizeRouteCall

OptSpec == OptInit /\ [][OptNext]_vars

\* ------------------------------- _executeMultiPathSwap on any allocation
\* The executor runs on the routes getOptimalRoute hands it.  With the
\* registry as deployed that is one pool per pair; addPool registers more,
\* all of the liquidity _getAvailablePools reports.  Here the swap runs from
\* the state after the pull on the routes optimizeRoute returns for the
\* candidate lists of OptSpec and for registries of up to MaxPools pools,
\* with the executor holding the pulled amount alone or on top of funds
\* left from earlier swaps.
Registries ==
    { [i \in 1..n |->
         [pool |-> 20 + i, token0 |-> USDC, token1 |-> WETH,
          liquidity |-> POOL_LIQUIDITY, fee |-> POOL_FEE]] : n \in 0..MaxPools }

ExecAmounts == {100, 400, 700, 1000}

ExecCalls ==
    OptCalls \cup [tokenIn : {WETH}, tokenOut : {USDC}, amountIn : ExecAmounts,
                   availablePools : Registries]

LeftOver == {0, 100}

\* the request whose routes are computed: any output is accepted
ExecParams ==
    [tokenIn |-> optCall.tokenIn, tokenOut |-> optCall.tokenOut,
     amountIn |-> optCall.amountIn, amountOutMin |-> 0,
     recipient |-> Trader, deadline |-> FarDeadline]

ExecInit ==
    /\ AgentStart
    /\ optCall \in ExecCalls
    /\ optCall.amountIn > 0
    /\ optResult = NoResult
    /\ now = 0
    /\ commitments = [u \in Users |-> EmptyOrder]
    /\ usedCommitments = {}
    /\ revealedOrders = << >>
    /\ \E left \in LeftOver :
         balances = [t \in Tokens |-> [h \in Holders |->
                       IF t = optCall.tokenIn /\ h = THIS
                       THEN left + optCall.amountIn ELSE 0]]
    /\ locked = TRUE
    /\ orderRevealed = [h \in CommitHashes |-> 0]
    /\ callStack = << >>

\* _executeMultiPathSwap runs to its end on the routes just computed
executeMultiPathSwapCall ==
    /\ Len(optResult) = 1
    /\ Len(optResult[1].routes) > 0
    /\ \E outs \in [1..Len(optResult[1].routes) -> VenueOuts] :
         LET ex == _executeMultiPathSwap(balances, ExecParams,
                                         optResult[1].routes, outs)
         IN  /\ ex.ok
             /\ optResult' = Append(optResult, ex)
             /\ balances' = ex.balances
    /\ UNCHANGED << now, commitments, usedCommitments, revealedOrders,
                    locked, orderRevealed, callStack, optCall, agentVars >>

ExecNext ==
    \/ optimizeRouteCall
    \/ executeMultiPathSwapCall

ExecSpec == ExecInit /\ [][ExecNext]_vars

\* --------------------------------------- revealAndExecute on any request
\* The reveal of a commitment to any of the requests of RevealRequests: the
\* run starts in the state one accepted commitOrder(h, 61) at time 0 leaves,
\* h being the digest of the request with nonce 0 and salt 0.
RevealHashes ==
    UNION { { Commitment(u, p, 0, 0) : p \in RevealRequests(u) } : u \in Users }

RevealInit ==
    /\ AgentStart
    /\ optCall = NoCall
    /\ optResult = NoResult
    /\ now = 0
    /\ \E u \in Users : \E p \in RevealRequests(u) :
         /\ commitments =
              [w \in Users |->
                 IF w = u
                 THEN [commitment |-> Commitment(u, p, 0, 0),
                       deadline |-> COMMIT_REVEAL_DELAY + 1,
                       revealed |-> FALSE, executed |-> FALSE]
                 ELSE EmptyOrder]
         /\ usedCommitments = {Commitment(u, p, 0, 0)}
    /\ revealedOrders = << >>
    /\ balances = [t \in Tokens |-> [h \in Holders |-> InitBalance(t, h)]]
    /\ locked = FALSE
    /\ orderRevealed = [h \in RevealHashes |-> 0]
    /\ callStack = << >>

RevealNext ==
    \/ Tick
    \/ RevealAndExecuteCall
    \/ revealAndExecuteResume

RevealSpec == RevealInit /\ [][RevealNext]_vars

\* ------------------------------------------ getOptimalRoute as a quote
\* getOptimalRoute is public and view: any caller may call it between and
\* during the swaps.  optCall holds the arguments of the quote (with the
\* pools _getAvailablePools found for them) and optResult what the first
\* and the second call with these arguments returned.
getOptimalRouteCall ==
    /\ optResult = NoResult
    /\ \E u \in Users : \E p \in SwapRequests(u) :
         /\ optCall' = [tokenIn |-> p.tokenIn, tokenOut |-> p.tokenOut,
                        amountIn |-> p.amountIn,
                        availablePools |-> _getAvailablePools(p.tokenIn, p.tokenOut)]
         /\ optResult' = << getOptimalRoute(p.tokenIn, p.tokenOut, p.amountIn) >>
    /\ UNCHANGED << now, commitments, usedCommitments, revealedOrders,
                    balances, locked, orderRevealed, callStack, agentVars >>

getOptimalRouteAgain ==
    /\ Len(optResult) = 1
    /\ optResult' = Append(optResult,
                           getOptimalRoute(optCall.tokenIn, optCall.tokenOut,
                                           optCall.amountIn))
    /\ UNCHANGED << now, commitments, usedCommitments, revealedOrders,
                    balances, locked, orderRevealed, callStack, optCall, agentVars >>

QuoteNext ==
    \/ Tick
    \/ ProtectedSwapCall
    \/ protectedSwapResume
    \/ getOptimalRouteCall
    \/ getOptimalRouteAgain

QuoteSpec == Init /\ [][QuoteNext]_vars

\* ------------------------------------------------------------ TraderAgent
\* The limit orders of TraderAgent.sol.  Its four state-changing functions
\* all carry nonReentrant, so no call of the contract runs inside another
\* one and each is one step, the venue's answer included.  The venue takes
\* exactly the amount it is handed, which leaves the allowance that
\* safeApprove sets at zero.
LimitTokensIn == {WETH, ZERO}
LimitAmounts == {0, 40}
LimitTargets == {0, 2}
LimitDeadlines == {0, 61}

\* what PriceOracle.getPrice answers, and its revert
Prices == {1, 2, 3}
PriceRevert == 0 - 1

AgentMove(bal, token, from, to, amount) ==
    [bal EXCEPT ![token] = [h \in AgentHolders |->
        IF from = to THEN @[h]
        ELSE IF h = from THEN @[h] - amount
        ELSE IF h = to THEN @[h] + amount
        ELSE @[h]]]

\* the checks of placeLimitOrder, in source order
placeLimitOrderError(sender, tokenIn, tokenOut, amountIn, targetPrice, deadline, value) ==
    IF ~(deadline >= now) THEN "TraderAgent: expired deadline"
    ELSE IF ~(amountIn > 0) THEN "TraderAgent: invalid amount"
    ELSE IF ~(targetPrice > 0) THEN "TraderAgent: invalid target price"
    ELSE IF tokenIn # ZERO /\ agentBalances[tokenIn][sender] < amountIn
         THEN "ERC20: transfer amount exceeds balance"
    ELSE IF tokenIn = ZERO /\ value # amountIn
         THEN "TraderAgent: incorrect ETH amount"
    ELSE "ok"

placeLimitOrder(sender, tokenIn, tokenOut, amountIn, targetPrice, deadline, value) ==
    LET err == placeLimitOrderError(sender, tokenIn, tokenOut, amountIn,
                                    targetPrice, deadline, value)
        orderId == nextOrderId
        paid == AgentMove(agentBalances, ZERO, sender, AGENT, value)
    IN  /\ nextOrderId <= MaxOrders
        /\ agentBalances[ZERO][sender] >= value
        /\ IF err # "ok"
           THEN UNCHANGED vars
           ELSE /\ agentBalances' =
                     IF tokenIn # ZERO
                     THEN AgentMove(paid, tokenIn, sender, AGENT, amountIn)
                     ELSE paid
                /\ nextOrderId' = nextOrderId + 1
                /\ limitOrders' = [limitOrders EXCEPT ![orderId] =
                     [user |-> sender, tokenIn |-> tokenIn, tokenOut |-> tokenOut,
                      amountIn |-> amountIn, targetPrice |-> targetPrice,
                      deadline |-> deadline, executed |-> FALSE]]
                /\ userOrders' = [userOrders EXCEPT ![sender] = Append(@, orderId)]
                /\ UNCHANGED << now, commitments, usedCommitments, revealedOrders,
                                balances, locked, orderRevealed, callStack,
                                optVars, limitOrderEvents >>

\* the price condition of executeLimitOrder (127-131)
priceConditionMet(order, currentPrice) ==
    \/ order.tokenIn < order.tokenOut /\ currentPrice >= order.targetPrice
    \/ order.tokenIn > order.tokenOut /\ currentPrice <= order.targetPrice

\* the checks of executeLimitOrder and the failures of its calls, in source
\* order; out is the venue's answer
executeLimitOrderError(orderId, currentPrice, out) ==
    LET order == limitOrders[orderId] IN
    IF order.executed THEN "TraderAgent: already executed"
    ELSE IF ~(order.deadline >= now) THEN "TraderAgent: order expired"
    ELSE IF currentPrice = PriceRevert THEN "PriceOracle: revert"
    ELSE IF ~priceConditionMet(order, currentPrice)
         THEN "TraderAgent: price condition not met"
    ELSE IF out = VenueRevert \/ agentBalances[order.tokenIn][AGENT] < order.amountIn
         THEN "SwapRouter: revert"
    ELSE "ok"

executeLimitOrder(sender, orderId, currentPrice, out) ==
    LET order == limitOrders[orderId]
        err == executeLimitOrderError(orderId, currentPrice, out)
        paid == IF order.tokenOut = ZERO THEN _getWETH ELSE order.tokenOut
    IN  IF err # "ok"
        THEN UNCHANGED vars
        ELSE /\ limitOrders' = [limitOrders EXCEPT ![orderId].executed = TRUE]
             /\ agentBalances' =
                  [agentBalances EXCEPT ![order.tokenIn][AGENT] = @ - order.amountIn,
                                        ![paid][order.user] = @ + out]
             /\ limitOrderEvents' = [limitOrderEvents EXCEPT ![orderId].executed = @ + 1]
             /\ UNCHANGED << now, commitments, usedCommitments, revealedOrders,
                             balances, locked, orderRevealed, callStack,
                             optVars, userOrders, nextOrderId >>

\* mutant: cancelLimitOrder does not look at the executed flag
cancelLimitOrderError_noExecutedCheck(sender, orderId) ==
    LET order == limitOrders[orderId] IN
    IF order.user # sender THEN "TraderAgent: not order owner"
    ELSE IF agentBalances[order.tokenIn][AGENT] < order.amountIn
         THEN "ERC20: transfer amount exceeds balance"
    ELSE "ok"

\* mutant: cancelLimitOrder refuses an order whose deadline has passed
cancelLimitOrderError_checksDeadline(sender, orderId) ==
    LET order == limitOrders[orderId] IN
    IF order.user # sender THEN "TraderAgent: not order owner"
    ELSE IF order.executed THEN "TraderAgent: already executed"
    ELSE IF ~(order.deadline >= now) THEN "TraderAgent: order expired"
    ELSE IF agentBalances[order.tokenIn][AGENT] < order.amountIn
         THEN "ERC20: transfer amount exceeds balance"
    ELSE "ok"

\* onlyOrderOwner, the executed check and the refund of cancelLimitOrder
cancelLimitOrderError(sender, orderId) ==
    LET order == limitOrders[orderId] IN
    IF order.user # sender THEN "TraderAgent: not order owner"
    ELSE IF order.executed THEN "TraderAgent: already executed"
    ELSE IF agentBalances[order.tokenIn][AGENT] < order.amountIn
         THEN "ERC20: transfer amount exceeds balance"
    ELSE "ok"

cancelLimitOrder(sender, orderId) ==
    LET order == limitOrders[orderId]
        err == cancelLimitOrderError(sender, orderId)
    IN  IF err # "ok"
        THEN UNCHANGED vars
        ELSE /\ limitOrders' = [limitOrders EXCEPT ![orderId].executed = TRUE]
             /\ agentBalances' = AgentMove(agentBalances, order.tokenIn, AGENT,
                                           order.user, order.amountIn)
             /\ limitOrderEvents' = [limitOrderEvents EXCEPT ![orderId].cancelled = @ + 1]
             /\ UNCHANGED << now, commitments, usedCommitments, revealedOrders,
                             balances, locked, orderRevealed, callStack,
                             optVars, userOrders, nextOrderId >>

PlaceLimitOrderCall ==
    \E u \in Users, tokenIn \in LimitTokensIn, amountIn \in LimitAmounts,
       targetPrice \in LimitTargets, deadline \in LimitDeadlines :
      \E v \in (IF tokenIn = ZERO THEN {0, amountIn} ELSE {0}) :
        placeLimitOrder(u, tokenIn, USDC, amountIn, targetPrice, deadline, v)

ExecuteLimitOrderCall ==
    \E u \in Users, id \in OrderIds, price \in Prices \cup {PriceRevert},
       out \in VenueOuts \cup {VenueRevert} :
      executeLimitOrder(u, id, price, out)

CancelLimitOrderCall ==
    \E u \in Users, id \in OrderIds : cancelLimitOrder(u, id)

AgentNext ==
    \/ Tick
    \/ PlaceLimitOrderCall
    \/ ExecuteLimitOrderCall
    \/ CancelLimitOrderCall

AgentSpec == Init /\ [][AgentNext]_vars

\* the transactions under the scheduling the batch path counts on: a venue
\* call always ends, and batchExecuteRevealed is called again and again; a
\* call that changes nothing is a step that leaves the state as it is
LiveSpec ==
    /\ Spec
    /\ WF_vars(protectedSwapResume)
    /\ WF_vars(revealAndExecuteResume)
    /\ WF_vars(BatchExecuteRevealedCall)

\* ------------------------------------- batchExecuteRevealed on any ledger
\* batchExecuteRevealed reads the queue and the records of the committers in
\* it.  Between transactions of Spec a revealed record is always executed
\* as well, so there the loop finds nothing to do; here it runs on ledgers
\* of any content: queues of up to MaxQueue entries, with and without
\* repeated committers, over records in every combination of flags.
Committers == { 200 + i : i \in 1..MaxQueue }

\* the committers whose record varies; every other record is revealed,
\* unexecuted and far from its deadline
Varied == {201, 202, 200 + MaxQueue - 1}

RecordKinds == {"revealed", "committed", "executed", "short"}

Record(u, kind) ==
    [commitment |-> Commitment(u, BaseRequest(u), 0, 0),
     deadline |-> IF kind = "short" THEN COMMIT_REVEAL_DELAY + 1 ELSE FarDeadline,
     revealed |-> kind # "committed",
     executed |-> kind = "executed"]

Queue(n, repeated) ==
    [i \in 1..n |-> IF repeated THEN 200 + ((i + 1) \div 2) ELSE 200 + i]

BatchInit ==
    /\ AgentStart
    /\ optCall = NoCall
    /\ optResult = NoResult
    /\ now = 0
    /\ \E kinds \in [Varied -> RecordKinds] :
         commitments = [u \in Committers |->
                          Record(u, IF u \in Varied THEN kinds[u] ELSE "revealed")]
    /\ usedCommitments = { Commitment(u, BaseRequest(u), 0, 0) : u \in Committers }
    /\ \E n \in 0..MaxQueue, repeated \in BOOLEAN :
         revealedOrders = Queue(n, repeated)
    /\ balances = [t \in Tokens |-> [h \in Holders |-> InitBalance(t, h)]]
    /\ locked = FALSE
    /\ orderRevealed = [h \in CommitHashes |-> 0]
    /\ callStack = << >>

BatchNext ==
    \/ Tick
    \/ BatchExecuteRevealedCall

BatchSpec == BatchInit /\ [][BatchNext]_vars


\* =================================================================== claims
Idle == callStack = << >>

Committed(u) ==
    /\ commitments[u].commitment # ZeroHash
    /\ ~commitments[u].revealed
    /\ ~commitments[u].executed

Matches(u, p, n, s) == commitments[u].commitment = Commitment(u, p, n, s)

\* the asset the venue pays a request out in
Paid(p) == IF p.tokenOut = ZERO THEN _getWETH ELSE p.tokenOut

\* what the recipient of the suspended call's request receives in this step
Realized == balances'[Paid(Top.params)][Top.params.recipient]
              - balances[Paid(Top.params)][Top.params.recipient]

\* the suspended call of function fn returns or reverts in this step
Returns(fn) == callStack # << >> /\ Top.fn = fn /\ callStack' = Pop

\* this step puts the state back to what it was when the suspended call began
RestoredToEntry ==
    /\ commitments' = Top.saved.commitments
    /\ usedCommitments' = Top.saved.usedCommitments
    /\ revealedOrders' = Top.saved.revealedOrders
    /\ balances' = Top.saved.balances
    /\ orderRevealed' = Top.saved.orderRevealed
    /\ locked' = Top.saved.locked

\* C1: a revealAndExecute with fully matching fields made at a time
\* now < deadline - COMMIT_REVEAL_DELAY fails with the reveal-too-early error
\* and leaves the commitment Committed.
C1_RevealTooEarlyRejected ==
    [][\A u \in Users, n \in Nonces, s \in Salts :
         \A p \in RevealRequests(u) : \A v \in MsgValues(p) :
           ( /\ Matches(u, p, n, s)
             /\ Committed(u)
             /\ now < commitments[u].deadline - COMMIT_REVEAL_DELAY
             /\ revealAndExecute(u, p, n, s, v) )
           => /\ revealAndExecuteError(u, p, n, s, v) = "RouterDefense: reveal too early"
              /\ commitments'[u] = commitments[u]]_vars

\* C2: when the realized output of a revealed request is below
\* request.minAmountOut, revealAndExecute aborts: the commitment is not marked
\* Revealed or Executed and no funds are moved.
C2_RevealEnforcesSlippageGuard ==
    [][(Returns("revealAndExecute") /\ Realized < Top.params.amountOutMin)
         => (commitments' = Top.saved.commitments /\ balances' = Top.saved.balances)]_vars

\* the used-hash set as it stands outside the transaction in progress
DurableUsed == IF Idle THEN usedCommitments ELSE callStack[1].saved.usedCommitments

\* C3: once commitOrder has accepted a hash, every later commitOrder of that
\* hash by any address fails with the commitment-used error and changes
\* nothing; the used-hash set only grows, and every stored commitment is in it.
C3_GlobalReplayProtection ==
    [][ (vars' # vars) =>
        /\ DurableUsed \subseteq DurableUsed'
        /\ Returns("protectedSwap") \/ Returns("revealAndExecute")
             \/ usedCommitments \subseteq usedCommitments'
        /\ \A u \in Users : commitments'[u].commitment # ZeroHash
                               => commitments'[u].commitment \in usedCommitments'
        /\ \A u \in Users, h \in usedCommitments, off \in DeadlineOffsets :
             /\ commitOrderError(h, now + off) = "RouterDefense: commitment used"
             /\ commitOrder(u, h, now + off) => UNCHANGED vars ]_vars

\* C3 witness: a used hash whose commitment has expired or was executed is
\* offered again, by any address, and is refused
C3_Witness ==
    \E u \in Users :
        /\ Idle
        /\ commitments[u].commitment \in usedCommitments
        /\ commitments[u].executed \/ commitments[u].deadline < now
        /\ \A off \in DeadlineOffsets :
             commitOrderError(commitments[u].commitment, now + off)
               = "RouterDefense: commitment used"

\* C4: for every commitment hash there is at most one successful reveal
\* (one OrderRevealed event), and a second revealAndExecute of an already
\* revealed commitment fails with the already-revealed error.
C4_RevealedAtMostOnce ==
    /\ \A h \in CommitHashes : orderRevealed[h] <= 1
    /\ \A u \in Users, n \in Nonces, s \in Salts :
         \A p \in RevealRequests(u) : \A v \in MsgValues(p) :
           (Matches(u, p, n, s) /\ commitments[u].revealed /\ nonReentrant)
           => revealAndExecuteError(u, p, n, s, v) = "RouterDefense: already revealed"

\* C4 witness: a commitment revealed and executed, whose reveal is tried again
C4_Witness ==
    \E u \in Users, n \in Nonces, s \in Salts :
        /\ Idle
        /\ Matches(u, BaseRequest(u), n, s)
        /\ commitments[u].revealed /\ commitments[u].executed
        /\ orderRevealed[commitments[u].commitment] = 1
        /\ revealAndExecuteError(u, BaseRequest(u), n, s, 0)
             = "RouterDefense: already revealed"

Live(u) ==
    /\ commitments[u].commitment # ZeroHash
    /\ ~commitments[u].executed
    /\ commitments[u].deadline >= now

\* C5: while the caller's stored commitment is Committed or Revealed, not
\* Executed and within its deadline, a commitOrder by the same caller is
\* rejected and the stored commitment is kept.
C5_LiveCommitmentNotOverwritten ==
    [][\A u \in Users, h \in CommitHashes, off \in DeadlineOffsets :
         (Live(u) /\ commitOrder(u, h, now + off))
         => commitments'[u] = commitments[u]]_vars

\* C6: while a protectedSwap or revealAndExecute is inside its external
\* call, every nested call of a state-mutating entry point is rejected, so
\* no commitment record, used-hash entry or queue entry changes.
C6_NoLedgerChangeDuringExecution ==
    [][(callStack # << >> /\ Len(callStack') >= Len(callStack))
         => UNCHANGED << commitments, usedCommitments, revealedOrders >>]_vars

\* the pull of protectedSwap succeeds for this caller and request
Fundable(u, p, v) ==
    /\ balances[ZERO][u] >= v
    /\ pullFunds(receiveValue(balances, u, v), u, p, v).err = "ok"

\* C7: a protectedSwap whose expected output or realized output is below
\* request.minAmountOut aborts with a slippage error (insufficient output
\* before the venue is called, slippage exceeded after it), and all balances
\* and all ledger state are as they were before the call.
C7_ProtectedSwapSlippageAborts ==
    [][ (vars' # vars) =>
        /\ \A u \in Users : \A p \in SwapRequests(u) : \A v \in MsgValues(p) :
             getOptimalRoute(p.tokenIn, p.tokenOut, p.amountIn).expectedAmountOut
                 < p.amountOutMin
             => /\ protectedSwapError(u, p, v) # "ok"
                /\ ~protectedSwap(u, p, v)
                /\ (nonReentrant /\ p.deadline >= now /\ p.amountIn > 0
                      /\ Fundable(u, p, v))
                   => protectedSwapError(u, p, v) = "RouterDefense: insufficient output"
        /\ (Returns("protectedSwap") /\ Realized < Top.params.amountOutMin)
             => RestoredToEntry ]_vars

\* C7 witness: a protectedSwap has pulled the caller's funds and is at the
\* venue, which may return less than the request's minimum
C7_Witness ==
    /\ callStack # << >>
    /\ Top.fn = "protectedSwap"
    /\ balances[Top.params.tokenIn][THIS] = Top.params.amountIn
    /\ \E out \in VenueOuts : out < Top.params.amountOutMin

\* C8: for a committer in state Committed, a revealAndExecute in which the
\* sender or any of tokenIn, tokenOut, amountIn, minAmountOut, recipient,
\* request deadline, nonce or salt differs from the committed value fails
\* with the invalid-reveal error and changes nothing.
C8_MismatchedRevealRejected ==
    [][ (vars' # vars) =>
        \A u \in Users, n \in Nonces, s \in Salts :
          \A p \in RevealRequests(u) : \A v \in MsgValues(p) :
            LET h == commitments[u].commitment IN
            ( /\ Committed(u) /\ nonReentrant
              /\ \/ h[1] # u \/ h[2] # p.tokenIn \/ h[3] # p.tokenOut
                 \/ h[4] # p.amountIn \/ h[5] # p.amountOutMin
                 \/ h[6] # p.recipient \/ h[7] # p.deadline
                 \/ h[8] # n \/ h[9] # s )
            => /\ revealAndExecuteError(u, p, n, s, v) = "RouterDefense: invalid reveal"
               /\ ~revealAndExecute(u, p, n, s, v) ]_vars

\* C8 witness: a Committed commitment and a reveal that differs from it in
\* the salt alone, refused as an invalid reveal
C8_Witness ==
    \E u \in Users :
        /\ Idle /\ Committed(u)
        /\ Matches(u, BaseRequest(u), 0, 0)
        /\ revealAndExecuteError(u, BaseRequest(u), 0, 1, 0)
             = "RouterDefense: invalid reveal"

\* C9: a commitment's executed flag is set, by revealAndExecute or by
\* batchExecuteRevealed, only at a time now <= its deadline; a matching
\* revealAndExecute at now > deadline fails with the commitment-expired
\* error and leaves the commitment unrevealed and unexecuted.
C9_ExpiredNeverExecuted ==
    [][ (vars' # vars) =>
        /\ \A u \in Users :
             ( /\ commitments'[u].executed
               /\ ~(commitments[u].executed
                      /\ commitments[u].commitment = commitments'[u].commitment)
               /\ ~(Returns("protectedSwap") /\ RestoredToEntry)
               /\ ~(Returns("revealAndExecute") /\ RestoredToEntry) )
             => now' <= commitments'[u].deadline
        /\ \A u \in Users, n \in Nonces, s \in Salts :
             \A p \in RevealRequests(u) : \A v \in MsgValues(p) :
               ( /\ Matches(u, p, n, s) /\ Committed(u) /\ nonReentrant
                 /\ now > commitments[u].deadline )
               => /\ revealAndExecuteError(u, p, n, s, v)
                       = "RouterDefense: commitment expired"
                  /\ ~revealAndExecute(u, p, n, s, v) ]_vars

\* C9 witness: a commitment executed at exactly its deadline, and another
\* that expired unrevealed and whose reveal is refused
C9_Witness ==
    \E u, w \in Users :
        /\ Idle
        /\ commitments[u].executed /\ commitments[u].revealed
        /\ commitments[u].deadline = now
        /\ Committed(w) /\ commitments[w].deadline < now
        /\ Matches(w, BaseRequest(w), 0, 0)
        /\ revealAndExecuteError(w, BaseRequest(w), 0, 0, 0)
             = "RouterDefense: commitment expired"

\* a hash commitOrder has not seen
Fresh(h) == h # ZeroHash /\ h \notin usedCommitments

\* C10 as stated: commitOrder accepts a deadline exactly when
\* now + MIN_DELAY <= deadline <= now + MAX_WINDOW, both bounds inclusive.
C10_DeadlineWindowInclusive ==
    \A h \in CommitHashes, off \in BoundaryOffsets :
        Fresh(h) =>
          ( commitOrderError(h, now + off) = "ok"
            <=> (now + COMMIT_REVEAL_DELAY <= now + off
                   /\ now + off <= now + MAX_COMMIT_WINDOW) )

\* C10 as amended: commitOrder accepts a deadline exactly when
\* now + MIN_DELAY < deadline <= now + MAX_WINDOW; deadline = now + MIN_DELAY
\* fails with deadline-too-soon, deadline = now + MAX_WINDOW + 1 with
\* deadline-too-far.
C10_DeadlineWindow ==
    \A h \in CommitHashes, off \in BoundaryOffsets :
        Fresh(h) =>
          /\ commitOrderError(h, now + off) = "ok"
               <=> (now + COMMIT_REVEAL_DELAY < now + off
                      /\ now + off <= now + MAX_COMMIT_WINDOW)
          /\ off <= COMMIT_REVEAL_DELAY
               => commitOrderError(h, now + off) = "RouterDefense: deadline too soon"
          /\ off > MAX_COMMIT_WINDOW
               => commitOrderError(h, now + off) = "RouterDefense: deadline too far"

\* C10 witness: a commitment accepted with deadline = now + MIN_DELAY + 1,
\* while a hash is still fresh
C10_Witness ==
    /\ \E u \in Users : /\ commitments[u].commitment # ZeroHash
                        /\ commitments[u].deadline = now + COMMIT_REVEAL_DELAY + 1
    /\ \E h \in CommitHashes : Fresh(h)

\* the suspended revealAndExecute ends in this step without having executed
\* the order of its caller
RevealFails ==
    Returns("revealAndExecute") /\ ~commitments'[Top.sender].executed

\* C11: revealAndExecute is all-or-nothing: when the fund pull, the route
\* computation or a venue leg fails after the reveal step, the commitment is
\* Committed after the call, and the revealed queue and all balances are as
\* they were before it.
C11_RevealAllOrNothing ==
    [][ (vars' # vars) =>
        /\ RevealFails =>
              /\ commitments' = Top.saved.commitments
              /\ commitments'[Top.sender].commitment # ZeroHash
              /\ ~commitments'[Top.sender].revealed
              /\ revealedOrders' = Top.saved.revealedOrders
              /\ balances' = Top.saved.balances
        /\ \A u \in Users, n \in Nonces, s \in Salts :
             \A p \in RevealRequests(u) : \A v \in MsgValues(p) :
               ( /\ Matches(u, p, n, s) /\ Committed(u)
                 /\ commitments[u].deadline >= now
                 /\ revealAndExecuteError(u, p, n, s, v) # "ok" )
               => ~revealAndExecute(u, p, n, s, v) ]_vars

\* C11 witness: a revealAndExecute is at the venue with the reveal step done
\* (flag set, caller appended to the queue) and the funds pulled, and the
\* venue may revert
C11_Witness ==
    /\ callStack # << >>
    /\ Top.fn = "revealAndExecute"
    /\ commitments[Top.sender].revealed
    /\ ~Top.saved.commitments[Top.sender].revealed
    /\ revealedOrders = Append(Top.saved.revealedOrders, Top.sender)
    /\ balances[Top.params.tokenIn][THIS]
         = Top.saved.balances[Top.params.tokenIn][THIS] + Top.params.amountIn

\* the records a batch call finds executable, and those this step marks
Executable(u) ==
    /\ commitments[u].revealed
    /\ ~commitments[u].executed
    /\ commitments[u].deadline >= now

Marked == { u \in DOMAIN commitments :
              commitments'[u].executed /\ ~commitments[u].executed }

\* C12: one call of batchExecuteRevealed marks at most MAX_BATCH_SIZE (20)
\* commitments Executed, whatever the length and content of the queue.
C12_BatchAtMostMaxBatchSize ==
    [][ (\E u \in Users : batchExecuteRevealed(u))
          => Cardinality(Marked) <= MAX_BATCH_SIZE ]_vars

\* C12 witness: the queue holds more than MAX_BATCH_SIZE committers with an
\* executable record, and the loop stops at the cap
C12_Witness ==
    /\ Idle /\ nonReentrant
    /\ Cardinality({ revealedOrders[i] : i \in 1..Len(revealedOrders) }
                     \cap { u \in DOMAIN commitments : Executable(u) })
         > MAX_BATCH_SIZE
    /\ batchLoop(1, 0, commitments).executed = MAX_BATCH_SIZE

\* the number of OrderRevealed events so far
RECURSIVE SumOver(_, _)
SumOver(f, S) ==
    IF S = {} THEN 0
    ELSE LET x == CHOOSE y \in S : TRUE IN f[x] + SumOver(f, S \ {x})

Reveals == SumOver(orderRevealed, DOMAIN orderRevealed)

\* C13: repeated batch settlement drains the backlog: when no further reveal
\* occurs, the revealed queue is empty after finitely many calls of
\* batchExecuteRevealed.
C13_BatchDrainsQueue ==
    \A c \in 0..Cardinality(CommitHashes) :
        (revealedOrders # << >> /\ Reveals = c)
          ~> (revealedOrders = << >> \/ Reveals # c)

\* a call of optimizeRoute has returned, and what it returned
Returned == optResult # NoResult

Result == optResult[1]

RECURSIVE SumSeq(_)
SumSeq(q) == IF q = << >> THEN 0 ELSE Head(q) + SumSeq(Tail(q))

Min(a, b) == IF a < b THEN a ELSE b

\* the capacity cap of a candidate, 30% of its liquidity
Cap(c) == (c.liquidity * 30) \div 100

MatchesPair(c) == {c.token0, c.token1} = {optCall.tokenIn, optCall.tokenOut}

\* the matching candidates with positive capacity, in the order supplied
Usable ==
    LET usable(c) == MatchesPair(c) /\ Cap(c) > 0
    IN  SelectSeq(optCall.availablePools, usable)

Caps(q) == [i \in 1..Len(q) |-> Cap(q[i])]

FirstN(q, n) == SubSeq(q, 1, Min(n, Len(q)))

\* C14 as stated: for amountIn > 0 and at least one matching candidate with
\* positive capacity, the legs' input amounts sum to min(amountIn, total
\* capacity), the total taken over all matching candidates supplied.
C14_LegsSumToTotalCapacity ==
    (Returned /\ optCall.amountIn > 0 /\ Usable # << >>)
    => SumSeq(Result.routeAmounts)
         = Min(optCall.amountIn, SumSeq(Caps(Usable)))

\* C14 as amended: for amountIn > 0 and at least one matching candidate with
\* positive capacity, the legs' input amounts sum to min(amountIn, capacity
\* of the first MAX_ROUTES matching candidates with positive capacity).
C14_LegsSumToRoutedCapacity ==
    (Returned /\ optCall.amountIn > 0 /\ Usable # << >>)
    => /\ SumSeq(Result.routeAmounts)
            = Min(optCall.amountIn, SumSeq(Caps(FirstN(Usable, MAX_ROUTES))))
       /\ SumSeq(Result.routeAmounts)
            = optCall.amountIn - Result.remainingAmount

\* C14 witness: more than MAX_ROUTES usable candidates were supplied, and
\* the legs sum to less than both amountIn and the capacity of all of them
C14_Witness ==
    /\ Returned
    /\ Len(Usable) > MAX_ROUTES
    /\ Len(Result.routes) = MAX_ROUTES
    /\ SumSeq(Result.routeAmounts) < optCall.amountIn
    /\ SumSeq(Result.routeAmounts) < SumSeq(Caps(Usable))

\* the greedy allocation in the order given, as legs (venue, amount, bps)
RECURSIVE GreedyLegs(_, _, _)
GreedyLegs(cands, remaining, legs) ==
    IF cands = << >> \/ Len(legs) = MAX_ROUTES \/ remaining = 0 THEN legs
    ELSE LET c == Head(cands)
             legAmount == Min(remaining, Cap(c))
         IN  IF ~MatchesPair(c) \/ Cap(c) = 0
             THEN GreedyLegs(Tail(cands), remaining, legs)
             ELSE GreedyLegs(Tail(cands), remaining - legAmount,
                    Append(legs, << c.pool, legAmount,
                                    (legAmount * 10000) \div optCall.amountIn >>))

\* the legs optimizeRoute returned, in the same form
ReturnedLegs ==
    [i \in 1..Len(Result.routes) |->
        << Result.routes[i].pool, Result.routeAmounts[i],
           Result.routes[i].percentage >>]

\* the request of the example: 100 units over venue A of capacity 60 and
\* venue B of capacity 80, both of the requested pair
ExampleCall ==
    /\ optCall.amountIn = 100
    /\ Len(optCall.availablePools) = 2
    /\ Caps(optCall.availablePools) = << 60, 80 >>
    /\ \A i \in 1..2 : MatchesPair(optCall.availablePools[i])

\* C15: optimizeRoute is the greedy allocation in source order: candidates
\* of another pair or of zero capacity are skipped, each other one gets
\* min(remaining, 30% of its liquidity) and floor(leg * 10000 / amountIn)
\* bps, up to MAX_ROUTES legs or until nothing remains; amountIn = 100 over
\* capacities A = 60 and B = 80 gives [(A, 60, 6000), (B, 40, 4000)].
C15_GreedySourceOrder ==
    Returned =>
      /\ ReturnedLegs = GreedyLegs(optCall.availablePools, optCall.amountIn, << >>)
      /\ ExampleCall =>
            ReturnedLegs = << << optCall.availablePools[1].pool, 60, 6000 >>,
                              << optCall.availablePools[2].pool, 40, 4000 >> >>

\* C15 witness: the call of the example has returned its two legs
C15_Witness ==
    /\ Returned
    /\ ExampleCall
    /\ Len(Result.routes) = 2
    /\ Result.routeAmounts = << 60, 40 >>
    /\ Result.remainingAmount = 0

\* the sum of the percentage entries of the legs returned
PercentageSum ==
    SumSeq([i \in 1..Len(Result.routes) |-> Result.routes[i].percentage])

\* C16: when optimizeRoute allocates the full amountIn over n legs, the
\* legs' percentages sum to between 10000 - (n - 1) and 10000 bps; the sum
\* never exceeds 10000 for any input.
C16_PercentagesSumWithinTolerance ==
    Returned =>
      /\ PercentageSum <= 10000
      /\ (optCall.amountIn > 0 /\ Result.remainingAmount = 0)
           => PercentageSum >= 10000 - (Len(Result.routes) - 1)

\* C16 witness: a full allocation over three legs whose percentages lose
\* two bps to truncation
C16_Witness ==
    /\ Returned
    /\ optCall.amountIn > 0
    /\ Result.remainingAmount = 0
    /\ Len(Result.routes) = 3
    /\ PercentageSum = 10000 - 2

\* C17: for every candidate list, the allocation has at most MAX_ROUTES (3)
\* legs and every leg is a candidate whose token pair is the requested
\* pair, in either orientation; no leg uses a venue of another pair.
C17_AtMostMaxRoutesOfOnePair ==
    Returned =>
      /\ Len(Result.routes) <= 3
      /\ \A k \in 1..Len(Result.routes) :
           /\ Result.routes[k].tokenIn = optCall.tokenIn
           /\ Result.routes[k].tokenOut = optCall.tokenOut
           /\ \E i \in 1..Len(optCall.availablePools) :
                /\ optCall.availablePools[i].pool = Result.routes[k].pool
                /\ \/ /\ optCall.availablePools[i].token0 = optCall.tokenIn
                      /\ optCall.availablePools[i].token1 = optCall.tokenOut
                   \/ /\ optCall.availablePools[i].token0 = optCall.tokenOut
                      /\ optCall.availablePools[i].token1 = optCall.tokenIn

\* C17 witness: more than MAX_ROUTES candidates, the first of another pair,
\* and an allocation of MAX_ROUTES legs with amount left over
C17_Witness ==
    /\ Returned
    /\ Len(optCall.availablePools) > MAX_ROUTES
    /\ ~MatchesPair(optCall.availablePools[1])
    /\ Len(Result.routes) = MAX_ROUTES
    /\ Result.remainingAmount > 0

\* no venue is registered for the pair of request p
Unmatched(p) == tokenPairPools(p.tokenIn, p.tokenOut) = << >>

\* C18: when no registered venue matches the requested pair,
\* getOptimalRoute returns an empty allocation with expected output 0, and
\* protectedSwap for that pair aborts for every minAmountOut, 0 included,
\* with balances and state unchanged; no swap completes with zero legs.
C18_NoVenueNoSwap ==
    [][ (vars' # vars) =>
        /\ \A u \in Users : \A p \in SwapRequests(u) : \A v \in MsgValues(p) :
             Unmatched(p) =>
               /\ getOptimalRoute(p.tokenIn, p.tokenOut, p.amountIn).routes = << >>
               /\ getOptimalRoute(p.tokenIn, p.tokenOut, p.amountIn).expectedAmountOut = 0
               /\ protectedSwapError(u, p, v) # "ok"
               /\ ~protectedSwap(u, p, v)
        /\ (callStack # << >> /\ Top.fn = "protectedSwap")
             => Top.routes # << >> ]_vars

\* C18 witness: a caller who has swapped on a registered pair asks for a
\* pair with no venue, with the exact native value and minAmountOut = 0, and
\* is refused for want of a route
C18_Witness ==
    \E u \in Users :
        LET p == [BaseRequest(u) EXCEPT !.tokenIn = ZERO, !.amountOutMin = 0] IN
        /\ Idle
        /\ balances[USDC][u] > 0
        /\ p \in SwapRequests(u)
        /\ Unmatched(p)
        /\ Fundable(u, p, p.amountIn)
        /\ protectedSwapError(u, p, p.amountIn) = "RouterDefense: no routes available"

\* the record of u has passed its deadline without having been executed
Expired(u) ==
    /\ commitments[u].commitment # ZeroHash
    /\ ~commitments[u].executed
    /\ commitments[u].deadline < now

InWindow(off) == COMMIT_REVEAL_DELAY < off /\ off <= MAX_COMMIT_WINDOW

\* C19: once a commitment's deadline has lapsed without execution, a
\* commitOrder by the same address with a fresh hash and a valid deadline
\* succeeds and replaces the expired record, and a commitOrder with the
\* expired commitment's own hash is rejected.
C19_ExpiredSlotIsFree ==
    \A u \in Users, off \in DeadlineOffsets :
        Expired(u) =>
          /\ \A h \in CommitHashes :
               (Fresh(h) /\ InWindow(off)) =>
                 /\ commitOrderError(h, now + off) = "ok"
                 /\ ENABLED ( /\ commitOrder(u, h, now + off)
                              /\ commitments'[u] =
                                   [commitment |-> h, deadline |-> now + off,
                                    revealed |-> FALSE, executed |-> FALSE] )
          /\ commitOrderError(commitments[u].commitment, now + off)
               = "RouterDefense: commitment used"
          /\ ~ENABLED ( /\ commitOrder(u, commitments[u].commitment, now + off)
                        /\ vars' # vars )

\* C19 witness: an expired, unexecuted record whose owner has a fresh hash
\* at hand
C19_Witness ==
    \E u \in Users, h \in CommitHashes :
        /\ Idle
        /\ Expired(u)
        /\ Fresh(h)
        /\ h[1] = u
        /\ commitOrderError(h, now + COMMIT_REVEAL_DELAY + 1) = "ok"

\* C20: a rejected commitOrder (zero hash, hash already used, deadline too
\* soon or too far) changes nothing: the caller's record, every other
\* committer's record, the used-hash set and the revealed queue stay as
\* they were.
C20_RejectedCommitChangesNothing ==
    \A u \in Users, h \in CommitHashes, off \in BoundaryOffsets :
        commitOrderError(h, now + off) # "ok"
        => ~ENABLED ( /\ commitOrder(u, h, now + off)
                      /\ << commitments, usedCommitments, revealedOrders >>'
                           # << commitments, usedCommitments, revealedOrders >> )

\* C20 witness: a committer with a stored record to whom each of the four
\* rejections applies
C20_Witness ==
    \E u \in Users, h \in CommitHashes :
        /\ Committed(u)
        /\ Fresh(h)
        /\ commitOrderError(ZeroHash, now + COMMIT_REVEAL_DELAY + 1)
             = "RouterDefense: invalid commitment"
        /\ commitOrderError(commitments[u].commitment, now + COMMIT_REVEAL_DELAY + 1)
             = "RouterDefense: commitment used"
        /\ commitOrderError(h, now + COMMIT_REVEAL_DELAY)
             = "RouterDefense: deadline too soon"
        /\ commitOrderError(h, now + MAX_COMMIT_WINDOW + 1)
             = "RouterDefense: deadline too far"

\* C21: reveal strictly precedes execution: in every reachable state, also
\* one reached through a callback during the venue call of
\* revealAndExecute, every record with executed = true has revealed = true,
\* and its hash is one whose reveal was verified.
C21_ExecutedOnlyAfterReveal ==
    \A u \in Users :
        commitments[u].executed
        => /\ commitments[u].revealed
           /\ orderRevealed[commitments[u].commitment] >= 1

\* C22: every address in the revealed queue has a commitment that is
\* Revealed and not yet Executed; an address whose commitment was executed
\* or replaced is no longer in the queue.
C22_QueueHoldsRevealedUnexecuted ==
    Idle =>
      \A i \in 1..Len(revealedOrders) :
          /\ commitments[revealedOrders[i]].revealed
          /\ ~commitments[revealedOrders[i]].executed

\* C30: between operations every commitment record has revealed = executed,
\* so that batchExecuteRevealed never finds an eligible entry, never marks
\* anything Executed, and the revealed queue never shrinks.
C30_RevealedEqualsExecuted ==
    Idle =>
      /\ \A u \in Users : commitments[u].revealed = commitments[u].executed
      /\ batchLoop(1, 0, commitments).executed = 0

\* this step is a call of batchExecuteRevealed
BatchStep == \E u \in Users : batchExecuteRevealed(u)

C24_BatchIsFifo ==
    [][ BatchStep =>
        \A j \in 1..Len(revealedOrders) : \A i \in 1..(j - 1) :
            (revealedOrders[j] \in Marked /\ Executable(revealedOrders[i]))
            => revealedOrders[i] \in Marked ]_vars

\* C24 witness: a queue in which an entry that is not executable stands
\* before executable ones, and in which more entries are executable than
\* one call marks
C24_Witness ==
    /\ Idle /\ nonReentrant
    /\ Len(revealedOrders) > MAX_BATCH_SIZE
    /\ ~Executable(revealedOrders[1])
    /\ Executable(revealedOrders[Len(revealedOrders)])
    /\ batchLoop(1, 0, commitments).executed = MAX_BATCH_SIZE
    /\ ~batchLoop(1, 0, commitments).commitments[revealedOrders[Len(revealedOrders)]].executed

\* _executeMultiPathSwap has run, and what it did
Swapped == Len(optResult) = 2

Legs == optResult[2].routeAmountsIn

\* C25: the executor never spends more than it pulled: the input amounts
\* handed to the venue over all legs sum to at most request.amountIn, and
\* each leg's amount is at most the amount still unspent.
C25_SpendsAtMostAmountIn ==
    Swapped =>
      /\ SumSeq(Legs) <= optCall.amountIn
      /\ \A k \in 1..Len(Legs) :
           Legs[k] <= optCall.amountIn - SumSeq(SubSeq(Legs, 1, k - 1))

\* C25 witness: a swap over three legs run by an executor that held more
\* than the pulled amount
C25_Witness ==
    /\ Swapped
    /\ Len(Legs) = 3
    /\ \A k \in 1..3 : Legs[k] > 0
    /\ balances[optCall.tokenIn][THIS] + SumSeq(Legs) > optCall.amountIn

\* C26: input funds are conserved: after a successful swap the input
\* amounts handed to the venue sum to exactly request.amountIn, so nothing
\* pulled from the caller stays in the executor.
C26_SpendsExactlyAmountIn ==
    Swapped => SumSeq(Legs) = optCall.amountIn

\* a suspended call of one of the guarded functions ends in this step
Exits == callStack # << >> /\ callStack' = Pop

\* C27: the lock is released on every exit path: a step in which a
\* protectedSwap or revealAndExecute ends, by returning or by reverting,
\* leaves the lock free, and whenever no call is in progress the lock is free
\* and no protectedSwap, revealAndExecute or batchExecuteRevealed is rejected
\* with the reentrancy error.
C27_LockReleasedOnEveryExit ==
    /\ [](Idle =>
            /\ ~locked
            /\ nonReentrant
            /\ \A u \in Users :
                 /\ \A p \in SwapRequests(u) : \A v \in MsgValues(p) :
                      protectedSwapError(u, p, v) # ReentrantCall
                 /\ \A p \in RevealRequests(u) : \A v \in MsgValues(p) :
                      \A n \in Nonces, s \in Salts :
                        revealAndExecuteError(u, p, n, s, v) # ReentrantCall)
    /\ [][Exits => (Idle' /\ ~locked')]_vars

\* C27 witness: a revealAndExecute has returned after executing, the queue
\* holds its entry, and the lock is free for the batchExecuteRevealed that
\* comes next
C27_Witness ==
    /\ Idle
    /\ ~locked
    /\ revealedOrders # << >>
    /\ \E u \in Users : commitments[u].revealed /\ commitments[u].executed

\* the number of entries of queue q that are address a
Occurs(q, a) == Cardinality({i \in 1..Len(q) : q[i] = a})

\* this step is the entry of a revealAndExecute called by a
RevealEntryOf(a) ==
    /\ Len(callStack') = Len(callStack) + 1
    /\ callStack'[Len(callStack')].fn = "revealAndExecute"
    /\ callStack'[Len(callStack')].sender = a

\* C28: only the committer reveals its commitment.  A step that sets
\* revealed on the record of address a, or appends a to the revealed queue,
\* is the entry of a revealAndExecute called by a itself (a revert, which
\* puts back the state of the reverted call's entry, aside); and a caller b
\* whose slot holds the digest of another address a's request, nonce and
\* salt is rejected with the invalid-reveal error when it supplies exactly
\* those fields, because the recomputed digest starts with b.
C28_OnlyCommitterReveals ==
    /\ [](\A a \in Users : \A b \in Users \ {a} :
            \A p \in RevealRequests(b) : \A n \in Nonces, s \in Salts :
              (commitments[b].commitment = Commitment(a, p, n, s))
              => \A v \in MsgValues(p) :
                   revealAndExecuteError(b, p, n, s, v)
                     \in {ReentrantCall, "RouterDefense: invalid reveal"})
    /\ [][(vars' # vars /\ ~(Exits /\ RestoredToEntry)) =>
            \A a \in Users :
              (\/ ~commitments[a].revealed /\ commitments'[a].revealed
               \/ Occurs(revealedOrders', a) > Occurs(revealedOrders, a))
              => RevealEntryOf(a)]_vars

\* C28 witness: no call is in progress, the slot of b holds the digest of
\* another address a's request with a live deadline, b supplies that
\* request, nonce and salt and has the funds for it, and the reveal is
\* rejected as invalid
C28_Witness ==
    /\ Idle
    /\ \E a \in Users : \E b \in Users \ {a} :
         /\ commitments[b].commitment = Commitment(a, BaseRequest(a), 0, 0)
         /\ BaseRequest(a) \in RevealRequests(b)
         /\ ~commitments[b].revealed
         /\ ~commitments[b].executed
         /\ commitments[b].deadline >= now
         /\ balances[WETH][b] >= BaseRequest(a).amountIn
         /\ revealAndExecuteError(b, BaseRequest(a), 0, 0, 0)
              = "RouterDefense: invalid reveal"

\* the candidate that leg k of the returned allocation goes through
LegPool(k) ==
    optCall.availablePools[CHOOSE i \in 1..Len(optCall.availablePools) :
                             optCall.availablePools[i].pool = Result.routes[k].pool]

\* C29 as stated: the fee f of a venue is a number of basis points, whether
\* that is the fee field as it stands or the fee field converted to basis
\* points; a leg of amount a has expected output
\* floor(floor(a * (10000 - f) / 10000) * 997 / 1000), never more than a,
\* and expectedAmountOut is the sum over the legs.
C29_FeeInBasisPoints ==
    Returned =>
      \E perBps \in {1, 100} :
        /\ \A k \in 1..Len(Result.routes) :
             LET a == Result.routeAmounts[k]
                 f == LegPool(k).fee \div perBps
             IN  /\ Result.expectedOuts[k]
                      = (((a * (10000 - f)) \div 10000) * 997) \div 1000
                 /\ Result.expectedOuts[k] <= a
        /\ Result.expectedAmountOut = SumSeq(Result.expectedOuts)

\* C29 as amended: the fee f of a venue is a number of millionths, and it
\* is the fee amount that truncates; a leg of amount a has expected output
\* floor((a - floor(a * f / 1000000)) * 997 / 1000), never more than a, and
\* expectedAmountOut is the sum over the legs.
C29_FeeInMillionths ==
    Returned =>
      /\ \A k \in 1..Len(Result.routes) :
           LET a == Result.routeAmounts[k]
               f == LegPool(k).fee
           IN  /\ Result.expectedOuts[k]
                    = ((a - ((a * f) \div 1000000)) * 997) \div 1000
               /\ Result.expectedOuts[k] <= a
      /\ Result.expectedAmountOut = SumSeq(Result.expectedOuts)

\* C29 witness: an allocation of two legs, the first of 600 with a fee
\* amount of 1 and expected output 597, the second with a fee amount of 0
C29_Witness ==
    /\ Returned
    /\ Len(Result.routes) = 2
    /\ Result.routeAmounts = << 600, 60 >>
    /\ LegPool(1).fee = POOL_FEE
    /\ Result.expectedOuts = << 597, 59 >>
    /\ Result.expectedAmountOut = 656

\* C31: in every reachable state each committer address appears at most
\* once in the revealed queue, also after commit, reveal, a new commit and
\* a second reveal.
C31_QueueHasNoDuplicates ==
    \A u \in Users : Occurs(revealedOrders, u) <= 1

\* commitOrder(h, now + off) called by a is accepted and stores h
Accepts(a, h, off) ==
    /\ commitOrderError(h, now + off) = "ok"
    /\ ENABLED ( /\ commitOrder(a, h, now + off)
                 /\ commitments'[a].commitment = h
                 /\ h \in usedCommitments' )

\* C32 as stated: for distinct addresses a and b and every non-zero hash h
\* that a has not committed (no address has, or b holds it in its slot and
\* a does not), a commitOrder of h by a with a valid deadline succeeds,
\* whatever b committed before, the same h included.
C32_CommitNeverBlockedByOthers ==
    \A a \in Users : \A b \in Users \ {a} :
      \A h \in CommitHashes \ {ZeroHash}, off \in DeadlineOffsets :
        (/\ InWindow(off)
         /\ \/ h \notin usedCommitments
            \/ commitments[b].commitment = h /\ commitments[a].commitment # h)
        => Accepts(a, h, off)

\* C32 as amended: a commitOrder of a non-zero hash h by a with a valid
\* deadline succeeds exactly when no address has had h accepted before,
\* whatever records a and the other addresses hold; when another address b
\* committed the same h first, it is rejected with the commitment-used
\* error.
C32_CommitBlockedOnlyByUsedHash ==
    \A a \in Users : \A b \in Users \ {a} :
      \A h \in CommitHashes \ {ZeroHash}, off \in DeadlineOffsets :
        InWindow(off) =>
          /\ Accepts(a, h, off) <=> h \notin usedCommitments
          /\ commitments[b].commitment = h
               => commitOrderError(h, now + off) = "RouterDefense: commitment used"

\* C32 witness: b holds a live record of one hash, a holds none, one hash
\* is unused and another one is the hash b committed
C32_Witness ==
    /\ Idle
    /\ \E a \in Users : \E b \in Users \ {a} :
         /\ commitments[a].commitment = ZeroHash
         /\ Committed(b)
         /\ commitments[b].commitment[1] = a
         /\ commitments[b].deadline >= now
         /\ \E h \in CommitHashes : Fresh(h) /\ h[1] = a
         /\ commitOrderError(commitments[b].commitment, now + COMMIT_REVEAL_DELAY + 1)
              = "RouterDefense: commitment used"

\* the record of some address other than a is not what it was before the
\* step
TouchesOthers(a) ==
    \E b \in Users \ {a} : commitments'[b] # commitments[b]

\* C33: committer isolation.  No commitOrder, revealAndExecute or
\* protectedSwap called by a changes the record of another address b; when
\* a suspended call of a ends, the record of every other address is left as
\* it is or, if the call reverts, put back to what it was when the call
\* began; batchExecuteRevealed changes a record only by setting executed
\* from false to true.
C33_CommitterIsolation ==
    /\ \A a \in Users :
         /\ \A h \in CommitHashes, off \in DeadlineOffsets :
              ~ENABLED (commitOrder(a, h, now + off) /\ TouchesOthers(a))
         /\ \A p \in RevealRequests(a) : \A v \in MsgValues(p) :
              \A n \in Nonces, s \in Salts :
                ~ENABLED (revealAndExecute(a, p, n, s, v) /\ TouchesOthers(a))
         /\ \A p \in SwapRequests(a) : \A v \in MsgValues(p) :
              ~ENABLED (protectedSwap(a, p, v) /\ TouchesOthers(a))
         /\ ~ENABLED ( /\ batchExecuteRevealed(a)
                       /\ \E b \in Users :
                            /\ commitments'[b] # commitments[b]
                            /\ \/ commitments[b].executed
                               \/ commitments'[b]
                                    # [commitments[b] EXCEPT !.executed = TRUE] )
    /\ ~Idle =>
         /\ ~ENABLED ( /\ revealAndExecuteResume
                       /\ \E b \in Users \ {Top.sender} :
                            /\ commitments'[b] # commitments[b]
                            /\ commitments'[b] # Top.saved.commitments[b] )
         /\ ~ENABLED ( /\ protectedSwapResume
                       /\ \E b \in Users \ {Top.sender} :
                            /\ commitments'[b] # commitments[b]
                            /\ commitments'[b] # Top.saved.commitments[b] )

\* C33 witness: b committed in the first block and a in the second; a has
\* revealed and executed since, and the record of b is still Committed
C33_Witness ==
    /\ Idle
    /\ \E a \in Users : \E b \in Users \ {a} :
         /\ Committed(b)
         /\ commitments[a].revealed
         /\ commitments[a].executed
         /\ commitments[b].deadline < commitments[a].deadline
         /\ revealedOrders = << a >>

\* C34: a revealAndExecute of the committed request is rejected when the
\* request has amountIn = 0 or a deadline before now: the call fails, no
\* funds move, the venue is not called, and the commitment stays Committed.
C34_RevealRejectsInvalidRequests ==
    \A u \in Users : \A p \in RevealRequests(u) : \A v \in MsgValues(p) :
      (/\ Idle
       /\ Committed(u)
       /\ Matches(u, p, 0, 0)
       /\ p.amountIn = 0 \/ p.deadline < now)
      => /\ revealAndExecuteError(u, p, 0, 0, v) # "ok"
         /\ ~ENABLED (revealAndExecute(u, p, 0, 0, v) /\ vars' # vars)

\* what getOptimalRoute returns for the request of the suspended call
QuoteOfTop ==
    getOptimalRoute(Top.params.tokenIn, Top.params.tokenOut, Top.params.amountIn)

Placed(id) == limitOrders[id].user # ZERO

\* what the TraderAgent holds in escrow of token t: the amounts of the
\* placed orders of that token that are neither executed nor cancelled
RECURSIVE Escrow(_, _)
Escrow(t, ids) ==
    IF ids = {} THEN 0
    ELSE LET id == CHOOSE x \in ids : TRUE
         IN  (IF Placed(id) /\ ~limitOrders[id].executed /\ limitOrders[id].tokenIn = t
              THEN limitOrders[id].amountIn ELSE 0)
             + Escrow(t, ids \ {id})

\* C36: the escrow of a limit order is released at most once.  Each order
\* id is executed at most once or cancelled at most once, never both; the
\* contract holds exactly the amounts of the orders not yet released; and
\* once an order is executed or cancelled every executeLimitOrder and
\* cancelLimitOrder on its id fails and changes nothing.
C36_EscrowReleasedAtMostOnce ==
    /\ \A t \in Tokens : agentBalances[t][AGENT] = Escrow(t, OrderIds)
    /\ \A id \in OrderIds :
         /\ limitOrderEvents[id].executed + limitOrderEvents[id].cancelled <= 1
         /\ limitOrders[id].executed
              <=> limitOrderEvents[id].executed + limitOrderEvents[id].cancelled = 1
         /\ limitOrders[id].executed =>
              \A u \in Users :
                /\ cancelLimitOrderError(u, id) # "ok"
                /\ ~ENABLED (cancelLimitOrder(u, id) /\ vars' # vars)
                /\ \A price \in Prices \cup {PriceRevert},
                      out \in VenueOuts \cup {VenueRevert} :
                     /\ executeLimitOrderError(id, price, out)
                          = "TraderAgent: already executed"
                     /\ ~ENABLED (executeLimitOrder(u, id, price, out) /\ vars' # vars)

\* C36 witness: one order has been executed and another one of the same
\* owner and token has been cancelled
C36_Witness ==
    \E a \in OrderIds : \E b \in OrderIds \ {a} :
      /\ limitOrderEvents[a].executed = 1
      /\ limitOrderEvents[b].cancelled = 1
      /\ limitOrders[a].tokenIn = limitOrders[b].tokenIn
      /\ limitOrders[a].user = limitOrders[b].user

\* the owner of order id gets its escrow back in this step
Refunds(id) ==
    LET order == limitOrders[id] IN
    /\ limitOrders' = [limitOrders EXCEPT ![id].executed = TRUE]
    /\ agentBalances'[order.tokenIn][order.user]
         = agentBalances[order.tokenIn][order.user] + order.amountIn
    /\ agentBalances'[order.tokenIn][AGENT]
         = agentBalances[order.tokenIn][AGENT] - order.amountIn
    /\ \A t \in Tokens \ {order.tokenIn} : agentBalances'[t] = agentBalances[t]

====
